---- MODULE Spec2Model ----
(***************************************************************************)
(* Model of stress-mmapfiles.c (stress-ng): one worker that walks a        *)
(* rotation of root directories, mmaps every regular file it finds into a  *)
(* bounded table of mappings, then munmaps the whole table, and repeats    *)
(* until it is told to stop.                                               *)
(*                                                                         *)
(* The recursion of stress_mmapfiles_dir is an explicit stack of frames,   *)
(* each with its directory, its readdir position and its own n_mappings.   *)
(* One action is one outcome of one iteration of a loop in the source.     *)
(* The operating system (opendir, open, fstat, mmap, munmap, the low       *)
(* memory predicate, the clock and the stop signal) is the environment:    *)
(* its answers are chosen nondeterministically.                            *)
(***************************************************************************)
EXTENDS Integers, Sequences, FiniteSets, TLC

(* ---------------- bounds of the model ---------------------------------- *)

\* capacity of the table of mappings: (512 * 1024) in the source, scaled
MMAP_MAX == 3

\* SIZEOF_ARRAY(dirs): 11 roots in the source, scaled
NumDirs == 3

\* no cycle is started once this many files have been mapped (the counters of
\* the worker grow without limit otherwise), as with --mmapfiles-ops
MaxOps == 2

\* args->page_size, scaled
page_size == 4

(* ---------------- program constants ------------------------------------ *)

NULL == 0

EXIT_SUCCESS == "EXIT_SUCCESS"

EXIT_NO_RESOURCE == "EXIT_NO_RESOURCE"

\* the sizes fstat() reports: an empty file, and one byte less than, exactly
\* and one byte more than a page
FileSizes == {0, page_size - 1, page_size, page_size + 1}

\* what two readings of stress_time_now() around a call can differ by, in
\* clock ticks: nothing with a coarse clock, one tick with a fine one
Deltas == {0, 1}

(* ---------------- the file system under the roots ---------------------- *)

DotEntry == [d_type |-> "DT_DIR", dot |-> TRUE, name |-> 0, openable |-> TRUE]

DirEntry(nm) == [d_type |-> "DT_DIR", dot |-> FALSE, name |-> nm, openable |-> TRUE]

RegEntry(nm, ok) == [d_type |-> "DT_REG", dot |-> FALSE, name |-> nm, openable |-> ok]

LnkEntry(nm) == [d_type |-> "DT_LNK", dot |-> FALSE, name |-> nm, openable |-> TRUE]

\* what readdir() yields for the directory at path, in order; a path is the
\* index of the root in dirs[] followed by the names below it
Listing(path) ==
    IF Len(path) = 1
    THEN CASE path[1] % 3 = 0 ->
                << DotEntry, RegEntry(1, TRUE), DirEntry(2), RegEntry(3, TRUE) >>
           [] path[1] % 3 = 2 ->
                << RegEntry(1, FALSE), RegEntry(2, TRUE), RegEntry(3, TRUE),
                   DirEntry(4) >>
           [] OTHER -> << >>
    ELSE IF Len(path) = 2 /\ path[1] % 3 = 0 /\ path[2] = 2
         THEN << DotEntry, DirEntry(5), LnkEntry(6), RegEntry(7, TRUE) >>
         ELSE IF Len(path) = 3 /\ path[3] = 5
              THEN << RegEntry(8, TRUE) >>
              ELSE << >>

\* opendir(path) succeeds: roots 1, 4, ... do not exist (as "/lib32" or the
\* "/etc," of dirs[]), and directory 4 under a root is not readable
CanOpenDir(path) ==
    /\ path[1] % 3 # 1
    /\ ~(Len(path) = 2 /\ path[2] = 4)

(* ---------------- state ------------------------------------------------ *)

VARIABLES
    pc,            \* where stress_mmapfiles and stress_mmapfiles_child are
    ret,           \* what stress_mmapfiles_child returns, once it has
    report,        \* what stress_mmapfiles returns and the metrics it sets
    keep_running,  \* what stress_continue_flag() answers
    oom_avoid,     \* g_opt_flags & OPT_FLAGS_OOM_AVOID
    file_size,     \* statbuf.st_size of the regular files of this run
    tick,          \* what two readings of stress_time_now() differ by
    idx,           \* rotation cursor into dirs[]
    i,             \* loop counter of the for loops of the cycle
    n,             \* table count of the cycle
    enomem,        \* the enomem flag of the current iteration over roots
    mappings,      \* the table: slot -> [addr, len]
    stack,         \* frames of stress_mmapfiles_dir, innermost last
    info,          \* *mmapfile_info; the page counts are in 1/page_size pages
    bogo,          \* the counter stress_bogo_inc() increments
    fds_open,      \* file descriptors opened and not yet closed
    dirs_open,     \* DIR handles opened and not yet closed
    \* history, for the properties
    first_cycle,   \* the do loop is in its first cycle
    appended,      \* addresses appended to the table in this cycle, in order
    attempts,      \* addresses given to munmap in this cycle, in order
    calls,         \* roots stress_mmapfiles_dir was called on in this cycle
    oob_write,     \* a slot at index >= MMAP_MAX was written
    cycle_start,   \* idx when the cycle began
    prev_start,    \* idx when the previous cycle began (-1: none)
    prev_visited,  \* roots the previous cycle called stress_mmapfiles_dir on
    oom_cycle,     \* a mapping attempt of this cycle failed with ENOMEM
    stop_seen,     \* line 96 of this cycle has read the stop signal as set
    entry,         \* n, info, bogo at the call on the current root
    tries,         \* mmap calls made within the call on the current root
    first_oom,     \* the first of them failed with ENOMEM
    last,          \* what the last step of the worker did, if it was the
                   \* outcome of a system call on an entry or on a slot
    retries        \* calls of stress_munmap_retry_enomem made so far

\* the inputs of a run
cfg == << oom_avoid, file_size, tick >>

\* the history of a cycle
cyc == << first_cycle, appended, attempts, calls, cycle_start, prev_start,
          prev_visited, oom_cycle, stop_seen >>

\* the history of a call on a root
call == << entry, tries, first_oom >>

vars == << pc, ret, report, keep_running, idx, i, n, enomem, mappings, stack, info,
           bogo, fds_open, dirs_open, oob_write, cfg, cyc, call, last, retries >>

Slots == 0 .. (MMAP_MAX - 1)

ClearedSlot == [addr |-> NULL, len |-> 0]

ZeroInfo ==
    [ mmap_page_count |-> 0, mmap_count |-> 0, mmap_duration |-> 0,
      munmap_page_count |-> 0, munmap_count |-> 0, munmap_duration |-> 0 ]

\* no call of stress_mmapfiles_dir on a root is under way
NoEntry == [n |-> 0, info |-> ZeroInfo, bogo |-> 0]

\* a step of the worker that is the outcome op of a system call; addr and
\* len are the arguments of stress_munmap_retry_enomem when the step calls it
Did(op) == [op |-> op, addr |-> NULL, len |-> 0]

\* a step of the worker that is no such outcome
NoOp == Did("none")

\* stress_mmapfiles has not returned
NoReport == [ret |-> "none", metrics |-> << >>]

(* ---------------- pure helpers ----------------------------------------- *)

\* (len + page_size - 1), the numerator of the page count added for len
PagesNumer(len) == len + page_size - 1

\* lines 144-146 with the two readings of the clock of line 132 exchanged
InfoAfterMmapClockReversed(inf, len, delta) ==
    [ inf EXCEPT !.mmap_count = @ + 1,
                 !.mmap_duration = @ - delta,
                 !.mmap_page_count = @ + PagesNumer(len) ]

\* lines 144-146: the counters after a successful mmap of len bytes
InfoAfterMmap(inf, len, delta) ==
    [ inf EXCEPT !.mmap_count = @ + 1,
                 !.mmap_duration = @ + delta,
                 !.mmap_page_count = @ + PagesNumer(len) ]

\* lines 216-218 with 2.0 for the 1.0 of line 217
InfoAfterMunmapCountedTwice(inf, len, delta) ==
    [ inf EXCEPT !.munmap_duration = @ + delta,
                 !.munmap_count = @ + 2,
                 !.munmap_page_count = @ + PagesNumer(len) ]

\* lines 216-218: the counters after a successful munmap of len bytes
InfoAfterMunmap(inf, len, delta) ==
    [ inf EXCEPT !.munmap_duration = @ + delta,
                 !.munmap_count = @ + 1,
                 !.munmap_page_count = @ + PagesNumer(len) ]

\* a division of doubles, kept as its two operands: den = 0 is a division by
\* zero
Quotient(num, den) == [num |-> num, den |-> den]

\* the metric 0.0
ZeroMetric == Quotient(0, 1)

\* line 262 without its test of the duration
MmapsPerSecUngated(inf) == Quotient(inf.mmap_count, inf.mmap_duration)

\* line 262: "file mmaps per sec"
MmapsPerSec(inf) ==
    IF inf.mmap_duration > 0
    THEN Quotient(inf.mmap_count, inf.mmap_duration)
    ELSE ZeroMetric

\* line 264: "file munmap per sec"
MunmapsPerSec(inf) ==
    IF inf.munmap_duration > 0
    THEN Quotient(inf.munmap_count, inf.munmap_duration)
    ELSE ZeroMetric

\* line 267: "file pages mmap'd per sec"; the page count is in 1/page_size
\* pages
MmapPagesPerSec(inf) ==
    IF inf.mmap_duration > 0
    THEN Quotient(inf.mmap_page_count, page_size * inf.mmap_duration)
    ELSE ZeroMetric

\* line 269: "file pages munmap'd per sec"
MunmapPagesPerSec(inf) ==
    IF inf.munmap_duration > 0
    THEN Quotient(inf.munmap_page_count, page_size * inf.munmap_duration)
    ELSE ZeroMetric

\* line 271: "pages per mapping"
PagesPerMapping(inf) ==
    IF inf.mmap_count > 0
    THEN Quotient(inf.mmap_page_count, page_size * inf.mmap_count)
    ELSE ZeroMetric

\* lines 262-272: the five metrics, by their index in stress_metrics_set
Metrics(inf) ==
    << MmapsPerSec(inf), MunmapsPerSec(inf), MmapPagesPerSec(inf),
       MunmapPagesPerSec(inf), PagesPerMapping(inf) >>

\* line 94 with > for >=
TableFullOffByOne(cnt) == cnt > MMAP_MAX

\* without lines 94-95
TableFullNever(cnt) == FALSE

\* line 94: the table is full
TableFull(cnt) == cnt >= MMAP_MAX

\* line 93 without the test of *enomem
DirLoopCondNoEnomem(en, more) == more

\* line 93: the while loop goes on; more says readdir() has an entry left
DirLoopCond(en, more) == ~en /\ more

\* lines 202-204 with > for >=
NextIdxLateWrap(k) == IF k + 1 > NumDirs THEN 0 ELSE k + 1

\* lines 202-204: the rotation cursor after one root
NextIdx(k) == IF k + 1 >= NumDirs THEN 0 ELSE k + 1

\* line 197: the loop over the roots goes on
RootsLoopCond(k) == k < NumDirs

\* line 209 with the last entry of the table left out
UnmapLoopCondShort(k, cnt) == k + 1 < cnt

\* line 209 with the stop signal tested as in the other loops
UnmapLoopCondUntilStop(k, cnt) == k < cnt /\ keep_running

\* line 209: the unmap loop goes on
UnmapLoopCond(k, cnt) == k < cnt

\* lines 205-206: the loop over the roots is left early
RootsBreak(en) == en

\* line 149: the failure of mmap that sets the enomem flag
IsEnomem(errno) == errno = "ENOMEM"

\* the address mmap returns for the mapping that goes to slot k: never
\* MAP_FAILED nor NULL, and no two mappings of the table share one
FreshAddr(k) == k + 1

\* stress_continue_flag(): the stop signal has not been raised
StressContinueFlag == keep_running

\* stress_continue(args): the worker is to go on with another cycle
StressContinue == keep_running

\* without line 152: the close of line 151 is followed by that of line 155
ClosesTwiceOnEnomem(outcome) == IF outcome = "enomem" THEN 2 ELSE 1

\* without line 151: the break of line 152 skips the close of line 155
ClosesNotOnEnomem(outcome) == IF outcome = "enomem" THEN 0 ELSE 1

\* close() calls made on the descriptor of a file, by the outcome for it
Closes(outcome) ==
    CASE outcome = "fstat_failed" -> 1
      [] outcome = "low_memory" -> 1
      [] outcome = "mapped" -> 1
      [] outcome = "enomem" -> 1
      [] outcome = "map_failed" -> 1

Top == stack[Len(stack)]

Entries == Listing(Top.path)

\* the entry the next readdir() of the innermost frame returns
Cur == Entries[Top.pos + 1]

\* the stack with the innermost frame past the entry it has just read
Advanced == [stack EXCEPT ![Len(stack)].pos = @ + 1]

(* ---------------- initial state ---------------------------------------- *)

Init ==
    /\ pc = "main"
    /\ ret = "none"
    /\ report = NoReport
    /\ last = NoOp
    /\ retries = 0
    /\ keep_running = TRUE
    /\ oom_avoid \in BOOLEAN
    /\ file_size \in FileSizes
    /\ tick \in Deltas
    /\ idx = 0
    /\ i = 0
    /\ n = 0
    /\ enomem = FALSE
    /\ mappings = [s \in Slots |-> ClearedSlot]
    /\ stack = << >>
    /\ info = ZeroInfo
    /\ bogo = 0
    /\ fds_open = 0
    /\ dirs_open = 0
    /\ first_cycle = TRUE
    /\ appended = << >>
    /\ attempts = << >>
    /\ calls = << >>
    /\ oob_write = FALSE
    /\ cycle_start = 0
    /\ prev_start = -1
    /\ prev_visited = 0
    /\ oom_cycle = FALSE
    /\ stop_seen = FALSE
    /\ entry = NoEntry
    /\ tries = 0
    /\ first_oom = FALSE

(* ---------------- stress_mmapfiles: the shared counters ---------------- *)

\* lines 243-260: the region of the counters is mapped, the six counters
\* are set to zero and stress_mmapfiles_child is started
InfoMapOk ==
    /\ pc = "main"
    /\ pc' = "start"
    /\ info' = ZeroInfo
    /\ last' = NoOp
    /\ UNCHANGED << ret, report, keep_running, idx, i, n, enomem, mappings, stack,
                    bogo, fds_open, dirs_open, oob_write, cfg, cyc, call, retries >>

\* lines 243-252: the region cannot be mapped
InfoMapFail ==
    /\ pc = "main"
    /\ pc' = "exit"
    /\ report' = [ret |-> EXIT_NO_RESOURCE, metrics |-> << >>]
    /\ last' = NoOp
    /\ UNCHANGED << ret, keep_running, idx, i, n, enomem, mappings, stack, info,
                    bogo, fds_open, dirs_open, oob_write, cfg, cyc, call, retries >>

\* lines 260-276: stress_mmapfiles_child has returned, the metrics are set
\* from the counters and its return value is returned
Report ==
    /\ pc = "done"
    /\ pc' = "exit"
    /\ report' = [ret |-> ret, metrics |-> Metrics(info)]
    /\ last' = NoOp
    /\ UNCHANGED << ret, keep_running, idx, i, n, enomem, mappings, stack, info,
                    bogo, fds_open, dirs_open, oob_write, cfg, cyc, call, retries >>

(* ---------------- stress_mmapfiles_child: start and cycle -------------- *)

\* lines 194-197 with line 164 inside the do loop: idx = 0 in every cycle
NewCycleCursorReset ==
    /\ pc' = "roots"
    /\ n' = 0
    /\ i' = 0
    /\ idx' = 0
    /\ first_cycle' = (pc = "start")
    /\ appended' = << >>
    /\ attempts' = << >>
    /\ calls' = << >>
    /\ prev_start' = IF pc = "start" THEN -1 ELSE cycle_start
    /\ prev_visited' = Len(calls)
    /\ cycle_start' = 0
    /\ oom_cycle' = FALSE
    /\ stop_seen' = FALSE
    /\ last' = NoOp
    /\ UNCHANGED << ret, keep_running, enomem, mappings, stack, info, retries, bogo,
                    fds_open, dirs_open, oob_write, cfg, report, call >>

\* lines 194-197: a cycle begins, with an empty count, the cursor at idx
NewCycle ==
    /\ pc' = "roots"
    /\ n' = 0
    /\ i' = 0
    /\ first_cycle' = (pc = "start")
    /\ appended' = << >>
    /\ attempts' = << >>
    /\ calls' = << >>
    /\ prev_start' = IF pc = "start" THEN -1 ELSE cycle_start
    /\ prev_visited' = Len(calls)
    /\ cycle_start' = idx
    /\ oom_cycle' = FALSE
    /\ stop_seen' = FALSE
    /\ last' = NoOp
    /\ UNCHANGED << ret, keep_running, idx, enomem, mappings, stack, info, retries, bogo,
                    fds_open, dirs_open, oob_write, cfg, report, call >>

\* lines 186-197: calloc succeeds, the do loop is entered with no check
CallocOk ==
    /\ pc = "start"
    /\ NewCycle

\* lines 187-190 with EXIT_SUCCESS returned at line 189
CallocFailReturnsSuccess ==
    /\ pc = "start"
    /\ pc' = "done"
    /\ ret' = EXIT_SUCCESS
    /\ last' = NoOp
    /\ UNCHANGED << keep_running, idx, i, n, enomem, mappings, stack, info,
                    retries, bogo, fds_open, dirs_open, oob_write, cfg, report,
                    cyc, call >>

\* lines 187-190: calloc fails
CallocFail ==
    /\ pc = "start"
    /\ pc' = "done"
    /\ ret' = EXIT_NO_RESOURCE
    /\ last' = NoOp
    /\ UNCHANGED << keep_running, idx, i, n, enomem, mappings, stack, info, retries, bogo,
                    fds_open, dirs_open, oob_write, cfg, report, cyc, call >>

\* lines 198-201: enomem is cleared and stress_mmapfiles_dir is called
BeginCall ==
    /\ enomem' = FALSE
    /\ calls' = Append(calls, idx)
    /\ entry' = [n |-> n, info |-> info, bogo |-> bogo]
    /\ tries' = 0
    /\ first_oom' = FALSE
    /\ UNCHANGED << ret, keep_running, idx, i, n, mappings, info, retries, bogo, fds_open,
                    oob_write, cfg, report, first_cycle, appended, attempts, cycle_start,
                    prev_start, prev_visited, oom_cycle, stop_seen >>

\* lines 197-201 and 89: the next root is opened and its frame begins
RootCall ==
    /\ pc = "roots"
    /\ RootsLoopCond(i)
    /\ CanOpenDir(<< idx >>)
    /\ BeginCall
    /\ stack' = << [path |-> << idx >>, pos |-> 0, n_mappings |-> n] >>
    /\ dirs_open' = dirs_open + 1
    /\ pc' = "dir"
    /\ last' = NoOp

\* lines 197-201 and 89-91: opendir of the next root fails, n comes back as is
RootCallFail ==
    /\ pc = "roots"
    /\ RootsLoopCond(i)
    /\ ~CanOpenDir(<< idx >>)
    /\ BeginCall
    /\ pc' = "called"
    /\ last' = Did("opendir_failed")
    /\ UNCHANGED << stack, dirs_open >>

\* lines 202-207: after the call the cursor advances; enomem ends the loop
RootReturned ==
    /\ pc = "called"
    /\ idx' = NextIdx(idx)
    /\ IF RootsBreak(enomem)
       THEN pc' = "unmap" /\ i' = 0
       ELSE pc' = "roots" /\ i' = i + 1
    /\ entry' = NoEntry
    /\ tries' = 0
    /\ first_oom' = FALSE
    /\ last' = NoOp
    /\ UNCHANGED << ret, keep_running, n, enomem, mappings, stack, info, retries, bogo,
                    fds_open, dirs_open, oob_write, cfg, report, cyc >>

\* lines 197 and 209: the rotation is complete, the unmap pass begins
RootsDone ==
    /\ pc = "roots"
    /\ ~RootsLoopCond(i)
    /\ pc' = "unmap"
    /\ i' = 0
    /\ last' = NoOp
    /\ UNCHANGED << ret, keep_running, idx, n, enomem, mappings, stack, info,
                    retries, bogo,
                    fds_open, dirs_open, oob_write, cfg, report, cyc, call >>

(* ---------------- stress_mmapfiles_dir: one frame ---------------------- *)

\* lines 158-159: closedir and return cnt, to the calling frame or to the
\* loop over the roots
Leave(cnt) ==
    /\ dirs_open' = dirs_open - 1
    /\ IF Len(stack) = 1
       THEN /\ stack' = << >>
            /\ n' = cnt
            /\ pc' = "called"
       ELSE /\ stack' = [SubSeq(stack, 1, Len(stack) - 1)
                            EXCEPT ![Len(stack) - 1].n_mappings = cnt]
            /\ n' = n
            /\ pc' = pc

\* line 93: the loop condition holds and readdir has returned an entry
InLoop ==
    /\ pc = "dir"
    /\ DirLoopCond(enomem, Top.pos < Len(Entries))

\* lines 94-95 without lines 96-97
WorkingNoStopTest ==
    /\ InLoop
    /\ ~TableFull(Top.n_mappings)

\* lines 94-97: neither break is taken for the entry read
Working ==
    /\ InLoop
    /\ ~TableFull(Top.n_mappings)
    /\ StressContinueFlag

\* lines 98-106, 116: the entry is a regular file and open() is called on it
IsFile ==
    /\ Working
    /\ ~Cur.dot
    /\ Cur.d_type = "DT_REG"

\* what no step of a frame changes
DirFrame ==
    UNCHANGED << ret, keep_running, idx, i, cfg, report, first_cycle, attempts, calls,
                 cycle_start, prev_start, prev_visited, entry >>

\* line 93 false, lines 158-159: enomem is set or the listing is exhausted
DirReturn ==
    /\ pc = "dir"
    /\ ~DirLoopCond(enomem, Top.pos < Len(Entries))
    /\ Leave(Top.n_mappings)
    /\ last' = NoOp
    /\ DirFrame
    /\ UNCHANGED << enomem, mappings, info, retries, bogo, fds_open, oob_write,
                    appended, oom_cycle, stop_seen, tries, first_oom >>

\* lines 94-95: the table is full
DirBreakFull ==
    /\ InLoop
    /\ TableFull(Top.n_mappings)
    /\ Leave(Top.n_mappings)
    /\ last' = NoOp
    /\ DirFrame
    /\ UNCHANGED << enomem, mappings, info, retries, bogo, fds_open, oob_write,
                    appended, oom_cycle, stop_seen, tries, first_oom >>

\* lines 96-97: the stop signal is set
DirBreakStop ==
    /\ InLoop
    /\ ~TableFull(Top.n_mappings)
    /\ ~StressContinueFlag
    /\ Leave(Top.n_mappings)
    /\ stop_seen' = TRUE
    /\ last' = NoOp
    /\ DirFrame
    /\ UNCHANGED << enomem, mappings, info, retries, bogo, fds_open, oob_write, appended,
                    oom_cycle, tries, first_oom >>

\* the frame goes on with its next entry and nothing else changes but, for a
\* file, the descriptors
NextEntry ==
    /\ stack' = Advanced
    /\ DirFrame
    /\ UNCHANGED << pc, n, enomem, mappings, info, retries, bogo, dirs_open, oob_write,
                    appended, oom_cycle, stop_seen, tries, first_oom >>

\* lines 98-99: "." and ".."
DirSkipDot ==
    /\ Working
    /\ Cur.dot
    /\ NextEntry
    /\ last' = NoOp
    /\ UNCHANGED fds_open

\* lines 100-105 and 89: a subdirectory is opened, a new frame begins
DirRecurse ==
    /\ Working
    /\ ~Cur.dot
    /\ Cur.d_type = "DT_DIR"
    /\ CanOpenDir(Append(Top.path, Cur.name))
    /\ stack' = Append(Advanced, [path |-> Append(Top.path, Cur.name), pos |-> 0,
                                  n_mappings |-> Top.n_mappings])
    /\ dirs_open' = dirs_open + 1
    /\ last' = NoOp
    /\ DirFrame
    /\ UNCHANGED << pc, n, enomem, mappings, info, retries, bogo, fds_open, oob_write,
                    appended, oom_cycle, stop_seen, tries, first_oom >>

\* lines 100-105 and 89-91: opendir of the subdirectory fails
DirRecurseFail ==
    /\ Working
    /\ ~Cur.dot
    /\ Cur.d_type = "DT_DIR"
    /\ ~CanOpenDir(Append(Top.path, Cur.name))
    /\ NextEntry
    /\ last' = Did("opendir_failed")
    /\ UNCHANGED fds_open

\* lines 100, 106: neither a directory nor a regular file
DirSkipOther ==
    /\ Working
    /\ ~Cur.dot
    /\ Cur.d_type \notin {"DT_DIR", "DT_REG"}
    /\ NextEntry
    /\ last' = NoOp
    /\ UNCHANGED fds_open

\* lines 116-118: open fails
FileOpenFail ==
    /\ IsFile
    /\ ~Cur.openable
    /\ NextEntry
    /\ last' = Did("open_failed")
    /\ UNCHANGED fds_open

\* lines 120-123: fstat fails
FileStatFail ==
    /\ IsFile
    /\ Cur.openable
    /\ fds_open' = fds_open + 1 - Closes("fstat_failed")
    /\ NextEntry
    /\ last' = Did("fstat_failed")

\* lines 125-128 with the enomem flag set as at line 150
FileLowMemorySetsEnomem ==
    /\ IsFile
    /\ Cur.openable
    /\ oom_avoid
    /\ fds_open' = fds_open + 1 - Closes("low_memory")
    /\ Leave(Top.n_mappings)
    /\ last' = Did("low_memory")
    /\ enomem' = TRUE
    /\ DirFrame
    /\ UNCHANGED << mappings, info, retries, bogo, oob_write, appended, oom_cycle,
                    stop_seen, tries, first_oom >>

\* lines 125-128: memory is low, the rest of this directory is given up
FileLowMemory ==
    /\ IsFile
    /\ Cur.openable
    /\ oom_avoid
    /\ fds_open' = fds_open + 1 - Closes("low_memory")
    /\ Leave(Top.n_mappings)
    /\ last' = Did("low_memory")
    /\ DirFrame
    /\ UNCHANGED << enomem, mappings, info, retries, bogo, oob_write, appended, oom_cycle,
                    stop_seen, tries, first_oom >>

\* lines 130-147, 155 with the n_mappings++ of line 143 before line 141
FileMmapOkIncrementFirst ==
    /\ IsFile
    /\ Cur.openable
    /\ info' = InfoAfterMmap(info, file_size, tick)
    /\ mappings' = IF Top.n_mappings + 1 \in Slots
                   THEN [mappings EXCEPT ![Top.n_mappings + 1] =
                            [addr |-> FreshAddr(Top.n_mappings), len |-> file_size]]
                   ELSE mappings
    /\ oob_write' = (oob_write \/ Top.n_mappings + 1 \notin Slots)
    /\ stack' = [Advanced EXCEPT ![Len(stack)].n_mappings = @ + 1]
    /\ bogo' = bogo + 1
    /\ fds_open' = fds_open + 1 - Closes("mapped")
    /\ appended' = Append(appended, FreshAddr(Top.n_mappings))
    /\ tries' = tries + 1
    /\ last' = Did("mapped")
    /\ DirFrame
    /\ UNCHANGED << pc, n, enomem, dirs_open, oom_cycle, stop_seen, first_oom,
                    retries >>

\* lines 130-147, 155: mmap succeeds, the mapping is appended to the table
FileMmapOk ==
    /\ IsFile
    /\ Cur.openable
    /\ info' = InfoAfterMmap(info, file_size, tick)
    /\ mappings' = IF Top.n_mappings \in Slots
                   THEN [mappings EXCEPT ![Top.n_mappings] =
                            [addr |-> FreshAddr(Top.n_mappings), len |-> file_size]]
                   ELSE mappings
    /\ oob_write' = (oob_write \/ Top.n_mappings \notin Slots)
    /\ stack' = [Advanced EXCEPT ![Len(stack)].n_mappings = @ + 1]
    /\ bogo' = bogo + 1
    /\ fds_open' = fds_open + 1 - Closes("mapped")
    /\ appended' = Append(appended, FreshAddr(Top.n_mappings))
    /\ tries' = tries + 1
    /\ last' = Did("mapped")
    /\ DirFrame
    /\ UNCHANGED << pc, n, enomem, dirs_open, oom_cycle, stop_seen, first_oom,
                    retries >>

\* lines 130-133, 148-155 with stress_bogo_inc after the if of line 133
FileMmapFailCounted(errno) ==
    /\ IsFile
    /\ Cur.openable
    /\ tries' = tries + 1
    /\ bogo' = bogo + 1
    /\ IF IsEnomem(errno)
       THEN /\ enomem' = TRUE
            /\ fds_open' = fds_open + 1 - Closes("enomem")
            /\ Leave(Top.n_mappings)
            /\ oom_cycle' = TRUE
            /\ first_oom' = (tries = 0)
            /\ last' = Did("enomem")
       ELSE /\ fds_open' = fds_open + 1 - Closes("map_failed")
            /\ stack' = Advanced
            /\ last' = Did("map_failed")
            /\ UNCHANGED << pc, n, enomem, dirs_open, oom_cycle, first_oom >>
    /\ DirFrame
    /\ UNCHANGED << mappings, info, retries, oob_write, appended, stop_seen >>

\* lines 130-133, 148-155: mmap fails with errno
FileMmapFail(errno) ==
    /\ IsFile
    /\ Cur.openable
    /\ tries' = tries + 1
    /\ IF IsEnomem(errno)
       THEN /\ enomem' = TRUE
            /\ fds_open' = fds_open + 1 - Closes("enomem")
            /\ Leave(Top.n_mappings)
            /\ oom_cycle' = TRUE
            /\ first_oom' = (tries = 0)
            /\ last' = Did("enomem")
       ELSE /\ fds_open' = fds_open + 1 - Closes("map_failed")
            /\ stack' = Advanced
            /\ last' = Did("map_failed")
            /\ UNCHANGED << pc, n, enomem, dirs_open, oom_cycle, first_oom >>
    /\ DirFrame
    /\ UNCHANGED << mappings, info, retries, bogo, oob_write, appended, stop_seen >>

\* lines 149-153: out of memory
FileMmapEnomem == FileMmapFail("ENOMEM")

\* line 149 false, line 155: any other failure of mmap
FileMmapOther == FileMmapFail("EINVAL")

(* ---------------- stress_mmapfiles_child: the unmap pass --------------- *)

\* lines 222-223 without line 223: the length of the slot is left behind
ClearSlotAddrOnly ==
    /\ mappings' = [mappings EXCEPT ![i].addr = NULL]
    /\ i' = i + 1
    /\ attempts' = Append(attempts, mappings[i].addr)
    /\ UNCHANGED << pc, ret, keep_running, idx, n, enomem, stack, bogo, fds_open,
                    dirs_open, oob_write, cfg, report, first_cycle, appended, calls,
                    cycle_start, prev_start, prev_visited, oom_cycle, stop_seen,
                    call >>

\* lines 222-223 and the i++ of line 209: the slot is cleared
ClearSlot ==
    /\ mappings' = [mappings EXCEPT ![i] = ClearedSlot]
    /\ i' = i + 1
    /\ attempts' = Append(attempts, mappings[i].addr)
    /\ UNCHANGED << pc, ret, keep_running, idx, n, enomem, stack, bogo, fds_open,
                    dirs_open, oob_write, cfg, report, first_cycle, appended, calls,
                    cycle_start, prev_start, prev_visited, oom_cycle, stop_seen,
                    call >>

\* lines 209-218, 222-223: munmap succeeds
UnmapOk ==
    /\ pc = "unmap"
    /\ UnmapLoopCond(i, n)
    /\ info' = InfoAfterMunmap(info, mappings[i].len, tick)
    /\ last' = Did("unmapped")
    /\ retries' = retries
    /\ ClearSlot

\* lines 219-221 with lines 215-218 done for a failed munmap as well
UnmapFailCounted ==
    /\ pc = "unmap"
    /\ UnmapLoopCond(i, n)
    /\ info' = InfoAfterMunmap(info, mappings[i].len, tick)
    /\ last' = [op |-> "munmap_failed", addr |-> mappings[i].addr,
                len |-> mappings[i].len]
    /\ retries' = retries + 1
    /\ ClearSlot

\* lines 209-214, 219-223: munmap fails, the retry helper is called and
\* its result is dropped
UnmapFail ==
    /\ pc = "unmap"
    /\ UnmapLoopCond(i, n)
    /\ info' = info
    /\ last' = [op |-> "munmap_failed", addr |-> mappings[i].addr,
                len |-> mappings[i].len]
    /\ retries' = retries + 1
    /\ ClearSlot

\* line 209 false: the unmap pass is over
UnmapDone ==
    /\ pc = "unmap"
    /\ ~UnmapLoopCond(i, n)
    /\ pc' = "while"
    /\ last' = NoOp
    /\ UNCHANGED << ret, keep_running, idx, i, n, enomem, mappings, stack, info, retries,
                    bogo, fds_open, dirs_open, oob_write, cfg, report, cyc, call >>

\* line 225 true, lines 194-197: another cycle
WhileContinue ==
    /\ pc = "while"
    /\ StressContinue
    /\ bogo < MaxOps
    /\ NewCycle

\* line 225 false, lines 227-230: the table is freed, the worker returns
WhileStop ==
    /\ pc = "while"
    /\ ~StressContinue
    /\ pc' = "done"
    /\ ret' = EXIT_SUCCESS
    /\ last' = NoOp
    /\ UNCHANGED << keep_running, idx, i, n, enomem, mappings, stack, info, retries, bogo,
                    fds_open, dirs_open, oob_write, cfg, report, cyc, call >>

(* ---------------- the environment -------------------------------------- *)

\* the stop signal is raised, at any moment, and stays raised
Stop ==
    /\ keep_running
    /\ pc \notin {"done", "exit"}
    /\ keep_running' = FALSE
    /\ UNCHANGED << last, pc, ret, idx, i, n, enomem, mappings, stack, info, retries, bogo,
                    fds_open, dirs_open, oob_write, cfg, report, cyc, call >>

(* ---------------- specification ---------------------------------------- *)

Worker ==
    \/ InfoMapOk
    \/ InfoMapFail
    \/ Report
    \/ CallocOk
    \/ CallocFail
    \/ RootCall
    \/ RootCallFail
    \/ RootReturned
    \/ RootsDone
    \/ DirReturn
    \/ DirBreakFull
    \/ DirBreakStop
    \/ DirSkipDot
    \/ DirRecurse
    \/ DirRecurseFail
    \/ DirSkipOther
    \/ FileOpenFail
    \/ FileStatFail
    \/ FileLowMemory
    \/ FileMmapOk
    \/ FileMmapEnomem
    \/ FileMmapOther
    \/ UnmapOk
    \/ UnmapFail
    \/ UnmapDone
    \/ WhileContinue
    \/ WhileStop

Next == Worker \/ Stop

Spec == Init /\ [][Next]_vars

\* the runs with files of one page and a clock that ticks: the size of the
\* files and the clock feed the counters of info and no test of the code
FairInit ==
    /\ Init
    /\ file_size = page_size
    /\ tick = 1

\* the worker is one sequential process whose system calls all return
FairSpec == FairInit /\ [][Next]_vars /\ WF_vars(Worker)

(* ---------------- properties ------------------------------------------- *)

\* the traversal pass of the cycle is under way
Traversing == pc \in {"roots", "dir", "called"}

\* C1: no mapping is leaked or unmapped twice. The traversal pass makes no
\* munmap call; the unmap pass has called munmap once on each of the first i
\* mappings appended, in order, and on nothing else; and when the cycle is
\* over the munmap calls are exactly the mappings appended, as many as the
\* count n the traversal pass returned.
C1_EveryMappingUnmappedOnce ==
    /\ Traversing => attempts = << >>
    /\ pc = "unmap" =>
          /\ i <= n
          /\ n = Len(appended)
          /\ attempts = SubSeq(appended, 1, i)
    /\ pc = "while" =>
          /\ Len(attempts) = n
          /\ attempts = appended
          /\ \A j, k \in 1 .. Len(attempts) :
                j # k => attempts[j] # attempts[k]
          /\ \A j \in 1 .. Len(attempts) : attempts[j] # NULL

\* a cycle that out of memory cut short ends with its two mappings unmapped
C1_Witness ==
    /\ pc = "while"
    /\ oom_cycle
    /\ Len(appended) = 2
    /\ Len(calls) < NumDirs

\* C2: the count of the table never exceeds MMAP_MAX, in the cycle or in any
\* frame, and no slot at an index >= MMAP_MAX is written; a frame whose
\* count has reached MMAP_MAX maps nothing more and raises no error.
C2_Bounded ==
    /\ n <= MMAP_MAX
    /\ Len(appended) <= MMAP_MAX
    /\ ~oob_write
    /\ \A f \in 1 .. Len(stack) : stack[f].n_mappings <= MMAP_MAX

C2_FullFrameMapsNothing ==
    (pc = "dir" /\ Top.n_mappings >= MMAP_MAX) =>
        /\ appended' = appended
        /\ mappings' = mappings
        /\ tries' = tries
        /\ enomem' = enomem
        /\ info' = info

\* C2: the bound holds in every state and a full frame maps nothing in any
\* step.
C2_CapacityNeverExceeded == [] C2_Bounded /\ [][C2_FullFrameMapsNothing]_vars

\* root 2 was called with MMAP_MAX - 1 mappings, has mapped the first of its
\* two files that can be mapped, and has the second still to read
C2_Witness ==
    /\ pc = "dir"
    /\ Top.path = << 2 >>
    /\ Top.pos = 2
    /\ entry.n = MMAP_MAX - 1
    /\ Top.n_mappings = MMAP_MAX
    /\ ~enomem

\* every slot of the table is null and of length zero
TableCleared == \A s \in Slots : mappings[s] = ClearedSlot

\* C3: after a cycle with no out-of-memory event every slot is cleared, and
\* a cycle begins with the count at zero and a cleared table.
C3_TableClearedAfterCycle ==
    /\ (pc = "while" /\ ~oom_cycle) => TableCleared
    /\ (pc = "roots" /\ calls = << >>) => (n = 0 /\ TableCleared)

\* a second cycle is about to begin after one without out of memory that
\* filled the table (the first cycle mapped at most one file)
C3_Witness ==
    /\ pc = "while"
    /\ ~oom_cycle
    /\ ~first_cycle
    /\ Len(attempts) = MMAP_MAX
    /\ file_size > 0

\* the steps of the worker, as opposed to the raising of the stop signal
WorkerStep == keep_running' = keep_running

\* C4: once a mapping attempt of a pass has failed with out of memory, no
\* frame makes another mmap call or reads another entry: every step of the
\* traversal is a return, up to the loop over the roots, which is left for
\* the unmap pass without a call on another root; and after the unmap pass
\* the worker goes on with the next cycle unless it is told to stop.
C4_AfterEnomem ==
    /\ (oom_cycle /\ Traversing) =>
          /\ appended' = appended
          /\ calls' = calls
          /\ info' = info
          /\ mappings' = mappings
    /\ (oom_cycle /\ pc = "dir") => tries' = tries
    /\ (oom_cycle /\ pc = "dir" /\ WorkerStep) =>
          /\ Len(stack') = Len(stack) - 1
          /\ pc' \in {"dir", "called"}
    /\ (oom_cycle /\ pc = "called" /\ WorkerStep) => pc' = "unmap"
    /\ (oom_cycle /\ pc = "while" /\ WorkerStep /\ keep_running) => pc' = "roots"

\* C4: no call on a root is pending or to come once out of memory was
\* flagged in the cycle, and every step after it is as stated above.
C4_EnomemAbortsPass ==
    [] (oom_cycle => pc # "roots") /\ [][C4_AfterEnomem]_vars

\* out of memory three directories deep: the two frames above have yet to
\* return, with entries left to read in both
C4_Witness ==
    /\ oom_cycle
    /\ pc = "dir"
    /\ Len(stack) = 2
    /\ Top.pos < Len(Entries)
    /\ stack[1].pos < Len(Listing(stack[1].path))
    /\ Len(calls) < NumDirs

\* C5: when the first mmap call of a call of stress_mmapfiles_dir on a root
\* fails with out of memory, the call returns with the count it was given,
\* enomem set, the counters and the bogo counter as they were, no descriptor
\* and no directory left open, and no second mmap call made.
C5_FirstAttemptEnomem ==
    (pc = "called" /\ first_oom) =>
        /\ n = entry.n
        /\ enomem
        /\ info = entry.info
        /\ bogo = entry.bogo
        /\ fds_open = 0
        /\ dirs_open = 0
        /\ stack = << >>
        /\ tries = 1

\* the call that failed at its first mmap was given a table with mappings
C5_Witness ==
    /\ pc = "called"
    /\ first_oom
    /\ entry.n > 0
    /\ info.mmap_count > 0

\* C6: the cursor stays within [0, NumDirs); the roots called in a cycle are
\* consecutive in the rotation from the cursor position the previous cycle
\* left, wrapping to zero after the last; and the cursor is ahead of the
\* position at which the cycle began by the number of roots called.
C6_CursorRotation ==
    /\ idx \in 0 .. (NumDirs - 1)
    /\ cycle_start \in 0 .. (NumDirs - 1)
    /\ Len(calls) <= NumDirs
    /\ \A k \in 1 .. Len(calls) : calls[k] = (cycle_start + k - 1) % NumDirs
    /\ pc \in {"roots", "unmap", "while"} =>
          idx = (cycle_start + Len(calls)) % NumDirs
    /\ pc \in {"dir", "called"} =>
          /\ calls # << >>
          /\ idx = calls[Len(calls)]
    /\ ~first_cycle =>
          cycle_start = (prev_start + prev_visited) % NumDirs

\* a cycle that began in mid-rotation, at root 1, was cut short at the last
\* root, and the cursor has wrapped to zero
C6_Witness ==
    /\ pc = "while"
    /\ oom_cycle
    /\ cycle_start = 1
    /\ calls = << 1, NumDirs - 1 >>
    /\ idx = 0

\* C7, as claimed: no call of stress_mmapfiles_dir on a root is made once
\* the table is full.
C7_NoCallOnceFull ==
    pc \in {"dir", "called"} => entry.n < MMAP_MAX

\* C7, amended: the loop over the roots does not test the count. A root
\* called with a full table is opened, at most one entry of it is read,
\* nothing is mapped and the count comes back as it was; the loop is left
\* only after all NumDirs roots were called or after out of memory.
C7_FullTableRootsStillCalled ==
    /\ (pc \in {"dir", "called"} /\ entry.n >= MMAP_MAX) =>
          /\ n = entry.n
          /\ tries = 0
          /\ info = entry.info
          /\ Len(appended) = MMAP_MAX
          /\ Len(stack) <= 1
          /\ stack # << >> => Top.pos = 0
    /\ pc \in {"unmap", "while"} => (Len(calls) = NumDirs \/ oom_cycle)

\* root 2 is open, called with the table that root 0 has filled
C7_Witness ==
    /\ pc = "dir"
    /\ entry.n = MMAP_MAX
    /\ Top.path = << 2 >>
    /\ calls = << 0, 1, 2 >>

\* C8, as claimed: a cycle begins at another root than the cycle before.
C8_StartDiffers ==
    ~first_cycle => cycle_start # prev_start

\* C8, amended: a cycle without out of memory calls all NumDirs roots and
\* leaves the cursor where it found it, so the next cycle begins at the
\* same root; a cycle begins at another root than the cycle before exactly
\* when that cycle called fewer than NumDirs roots.
C8_StartDiffersOnlyAfterShortCycle ==
    /\ (pc \in {"unmap", "while"} /\ ~oom_cycle) =>
          (Len(calls) = NumDirs /\ idx = cycle_start)
    /\ ~first_cycle =>
          /\ prev_visited \in 1 .. NumDirs
          /\ (cycle_start # prev_start) <=> (prev_visited < NumDirs)

\* two cycles in a row have begun at root 1
C8_Witness ==
    /\ ~first_cycle
    /\ pc = "dir"
    /\ cycle_start = 1
    /\ prev_start = 1
    /\ prev_visited = NumDirs

\* the worker has returned EXIT_SUCCESS with nothing left mapped
CleanExit ==
    /\ TableCleared
    /\ attempts = appended
    /\ Len(attempts) = n
    /\ stack = << >>
    /\ fds_open = 0
    /\ dirs_open = 0

\* the worker is in its do loop, lines 194-225
InDoLoop == pc \in {"roots", "dir", "called", "unmap", "while"}

\* C9: once the stop signal is raised in the loop, the worker returns
\* EXIT_SUCCESS in the end; and when it has, munmap was called on every
\* mapping of the last cycle and every slot of the table is cleared.
C9_StopLeadsToCleanExit ==
    /\ (~keep_running /\ InDoLoop) ~> (pc = "done" /\ ret = EXIT_SUCCESS)
    /\ [] ((pc = "done" /\ ret = EXIT_SUCCESS) => CleanExit)

\* the worker has returned from a cycle that the stop signal interrupted
\* with two files mapped
C9_Witness ==
    /\ pc = "done"
    /\ ret = EXIT_SUCCESS
    /\ stop_seen
    /\ Len(attempts) = 2

\* this step calls mmap
MmapCalled == tries' = tries + 1

\* C10, as claimed: once the stop signal is raised there is no further mmap
\* call, no cycle is begun, the first one included, and no further root is
\* traversed.
C10_NothingBegunStep ==
    ~keep_running =>
        /\ ~MmapCalled
        /\ calls' = calls
        /\ ~(pc \in {"start", "while"} /\ pc' = "roots")

\* C10, as claimed, of every step.
C10_NothingBegunOnceStopped == [][C10_NothingBegunStep]_vars

\* C10, amended: the signal is tested for every entry readdir returns and
\* at the end of every cycle. Once it is raised, no mmap call is made, no
\* entry is processed and no subdirectory is entered: each frame returns at
\* its next step; and no cycle follows the current one.
C10_StoppedStep ==
    ~keep_running =>
        /\ ~MmapCalled
        /\ appended' = appended
        /\ bogo' = bogo
        /\ Traversing => (mappings' = mappings /\ info' = info)
        /\ pc = "dir" => Len(stack') = Len(stack) - 1
        /\ pc = "while" => pc' = "done"

\* C10, amended, of every step.
C10_StopTestedPerEntryAndPerCycle == [][C10_StoppedStep]_vars

\* in the first cycle, after a frame has read the signal as raised, the
\* next root is open all the same
C10_Witness ==
    /\ first_cycle
    /\ stop_seen
    /\ pc = "dir"
    /\ Len(calls) = NumDirs
    /\ appended = << >>

\* this step of the worker is the outcome op of a system call
Outcome(op) == WorkerStep /\ last'.op = op

\* ceil(len / page_size), in pages
CeilPages(len) == (len + page_size - 1) \div page_size

\* C11, as claimed: a successful mmap of len bytes adds ceil(len / page_size)
\* pages to mmap_page_count, and a successful munmap of len bytes adds as
\* many to munmap_page_count (the counts of info are in 1/page_size pages).
C11_PageCountStep ==
    /\ Outcome("mapped") =>
          info'.mmap_page_count - info.mmap_page_count
              = page_size * CeilPages(file_size)
    /\ Outcome("unmapped") =>
          info'.munmap_page_count - info.munmap_page_count
              = page_size * CeilPages(mappings[i].len)

\* C11, as claimed, of every step.
C11_PageCountIsCeil == [][C11_PageCountStep]_vars

\* C12: a step at which the munmap of slot i fails calls the retry helper
\* once, with the address and the length of the slot; clears the slot and
\* no other; changes none of the counters of info; and leaves the loop at
\* the next slot.
C12_UnmapFailStep ==
    Outcome("munmap_failed") =>
        /\ pc = "unmap"
        /\ i < n
        /\ mappings[i].addr # NULL
        /\ retries' = retries + 1
        /\ last'.addr = mappings[i].addr
        /\ last'.len = mappings[i].len
        /\ mappings'[i] = ClearedSlot
        /\ \A s \in Slots \ {i} : mappings'[s] = mappings[s]
        /\ info' = info
        /\ pc' = "unmap"
        /\ i' = i + 1

\* C12, of every step.
C12_FailedUnmapClearsSlot == [][C12_UnmapFailStep]_vars

\* the munmap of the first of two mappings has failed: its slot is cleared,
\* no munmap is counted and the second mapping is the next
C12_Witness ==
    /\ last.op = "munmap_failed"
    /\ last.len > 0
    /\ pc = "unmap"
    /\ i = 1
    /\ n = 2
    /\ mappings[0] = ClearedSlot
    /\ mappings[1].addr # NULL
    /\ info.mmap_count = 2
    /\ info.munmap_count = 0

\* the six counters of info
Counters == DOMAIN ZeroInfo

\* C13: no step decreases any of the six counters.
C13_CountersStep == \A c \in Counters : info'[c] >= info[c]

\* C13: the six counters are zero when stress_mmapfiles_child is started and
\* until its first cycle begins, and no step of the run decreases one. The
\* clock is monotonic: no reading of it is below an earlier one (Deltas).
C13_CountersZeroThenMonotonic ==
    /\ [] (pc = "start" => info = ZeroInfo)
    /\ [] (\A c \in Counters : info[c] >= 0)
    /\ [][C13_CountersStep]_vars

\* a second cycle is under way with all six counters above zero
C13_Witness ==
    /\ ~first_cycle
    /\ pc = "dir"
    /\ \A c \in Counters : info[c] > 0
    /\ info.mmap_count > info.munmap_count

\* the metric m is 0.0 and no division by zero has made it
IsZeroMetric(m) == m.num = 0 /\ m.den # 0

\* stress_mmapfiles has set its metrics from the counters
Reported == pc = "exit" /\ report.metrics # << >>

\* C14: none of the five metrics is a division by zero; the two rates over
\* mmap_duration are 0 when mmap_duration is 0, whatever mmap_count is, the
\* two rates over munmap_duration are 0 when munmap_duration is 0, and the
\* pages per mapping are 0 when mmap_count is 0 and the quotient of the page
\* count by mmap_count otherwise, whatever mmap_duration is.
C14_NoDivisionByZero ==
    Reported =>
        /\ \A k \in DOMAIN report.metrics : report.metrics[k].den # 0
        /\ info.mmap_duration = 0 =>
              /\ IsZeroMetric(report.metrics[1])
              /\ IsZeroMetric(report.metrics[3])
        /\ info.munmap_duration = 0 =>
              /\ IsZeroMetric(report.metrics[2])
              /\ IsZeroMetric(report.metrics[4])
        /\ info.mmap_count = 0 => IsZeroMetric(report.metrics[5])
        /\ info.mmap_count > 0 =>
              report.metrics[5] =
                  Quotient(info.mmap_page_count, page_size * info.mmap_count)

\* the metrics of a run that has mapped and unmapped files within one tick
\* of the clock
C14_Witness ==
    /\ Reported
    /\ info.mmap_count > 0
    /\ info.munmap_count > 0
    /\ info.mmap_duration = 0
    /\ info.munmap_duration = 0
    /\ report.metrics[5].num > 0

\* no cycle was begun: no call of stress_mmapfiles_dir, so no directory
\* opened (every cycle calls it on a root and leaves calls non-empty or
\* first_cycle false), no file mapped and no counter changed
NothingRun ==
    /\ first_cycle
    /\ calls = << >>
    /\ appended = << >>
    /\ attempts = << >>
    /\ TableCleared
    /\ info = ZeroInfo
    /\ bogo = 0
    /\ retries = 0
    /\ stack = << >>
    /\ fds_open = 0
    /\ dirs_open = 0

\* C15: when the region of the counters cannot be mapped or calloc of the
\* table fails, EXIT_NO_RESOURCE is returned and nothing of a run has
\* happened; stress_mmapfiles_child returns nothing else but EXIT_SUCCESS,
\* and that only from a do loop that the stop signal has ended; and
\* stress_mmapfiles returns what stress_mmapfiles_child has returned.
C15_AllocFailureNoPartialRun ==
    /\ pc \in {"done", "exit"} <=> (ret # "none" \/ report # NoReport)
    /\ ret \in {"none", EXIT_NO_RESOURCE, EXIT_SUCCESS}
    /\ report.ret \in {"none", EXIT_NO_RESOURCE, EXIT_SUCCESS}
    /\ (ret = EXIT_NO_RESOURCE \/ report.ret = EXIT_NO_RESOURCE) => NothingRun
    /\ ret = EXIT_SUCCESS => (~keep_running /\ calls # << >> /\ CleanExit)
    /\ (pc = "exit" /\ ret # "none") => report.ret = ret
    /\ (pc = "exit" /\ ret = "none") =>
          (report.ret = EXIT_NO_RESOURCE /\ report.metrics = << >>)

\* calloc has failed and stress_mmapfiles has returned EXIT_NO_RESOURCE
\* with its metrics set from the zeroed counters
C15_Witness ==
    /\ Reported
    /\ ret = EXIT_NO_RESOURCE
    /\ report.ret = EXIT_NO_RESOURCE
    /\ NothingRun

\* C16: a step at which line 125 finds memory low (the flag
\* OPT_FLAGS_OOM_AVOID is set and stress_low_memory(len) is true) maps
\* nothing, leaves no descriptor open and enomem false, and returns from
\* the innermost frame only, with its directory closed and the count as it
\* was.
C16_LowMemoryStep ==
    Outcome("low_memory") =>
        /\ oom_avoid
        /\ mappings' = mappings
        /\ info' = info
        /\ bogo' = bogo
        /\ tries' = tries
        /\ appended' = appended
        /\ fds_open' = fds_open
        /\ ~enomem'
        /\ dirs_open' = dirs_open - 1
        /\ Len(stack') = Len(stack) - 1
        /\ \A f \in 1 .. Len(stack') :
              /\ stack'[f].path = stack[f].path
              /\ stack'[f].pos = stack[f].pos
        /\ Len(stack) > 1 =>
              (pc' = "dir" /\ stack'[Len(stack')].n_mappings = Top.n_mappings)
        /\ Len(stack) = 1 => (pc' = "called" /\ n' = Top.n_mappings)

\* C16: the step after it. The calling frame, when it has an entry left,
\* the table is not full and the stop signal is not raised, reads its next
\* entry (and is past it afterwards, unless that entry in turn ends the
\* frame for low memory or out of memory); the loop over the roots goes on
\* with its next iteration and not with the unmap pass.
C16_AfterLowMemoryStep ==
    (last.op = "low_memory" /\ WorkerStep) =>
        /\ (pc = "dir" /\ Working) =>
              \/ /\ Len(stack') >= Len(stack)
                 /\ stack'[Len(stack)].pos = Top.pos + 1
              \/ last'.op \in {"low_memory", "enomem"}
        /\ pc = "called" => (pc' = "roots" /\ i' = i + 1 /\ n' = n)

\* C16, of every step.
C16_LowMemoryEndsOneDirectory ==
    [][C16_LowMemoryStep /\ C16_AfterLowMemoryStep]_vars

\* memory was low for the file of the directory three deep: its frame has
\* returned, and the frame above has two entries left, one of them a file
C16_Witness ==
    /\ last.op = "low_memory"
    /\ pc = "dir"
    /\ Len(stack) = 2
    /\ Top.pos = 2
    /\ Len(Entries) = 4
    /\ Top.n_mappings = 1
    /\ keep_running
    /\ ~enomem

\* the failures that are skipped: of opendir, of open, of fstat, and of mmap
\* for another reason than ENOMEM
Ignorable == {"opendir_failed", "open_failed", "fstat_failed", "map_failed"}

\* C17: a step that is one of these failures leaves the table, the
\* counters of info, the bogo counter and the count as they were and enomem
\* false; in a frame, the frame stays and is past the entry that failed;
\* for a root that cannot be opened, the call returns the count it was given.
C17_IgnorableStep ==
    (WorkerStep /\ last'.op \in Ignorable) =>
        /\ mappings' = mappings
        /\ info' = info
        /\ bogo' = bogo
        /\ appended' = appended
        /\ n' = n
        /\ ~enomem'
        /\ pc \in {"dir", "roots"}
        /\ pc = "dir" =>
              /\ enomem' = enomem
              /\ pc' = "dir"
              /\ stack' = Advanced
              /\ stack'[Len(stack)].n_mappings = Top.n_mappings
        /\ pc = "roots" =>
              /\ last'.op = "opendir_failed"
              /\ pc' = "called"
              /\ stack' = << >>

\* C17: the step after it. The frame, when it has an entry left, the table
\* is not full and the stop signal is not raised, reads its next entry; the
\* loop over the roots goes on with its next iteration.
C17_AfterIgnorableStep ==
    (last.op \in Ignorable /\ WorkerStep) =>
        /\ (pc = "dir" /\ Working) =>
              \/ /\ Len(stack') >= Len(stack)
                 /\ stack'[Len(stack)].pos = Top.pos + 1
              \/ last'.op \in {"low_memory", "enomem"}
        /\ pc = "called" => (pc' = "roots" /\ i' = i + 1 /\ n' = n)

\* C17, of every step.
C17_IgnorableFailureSkipsEntry ==
    [][C17_IgnorableStep /\ C17_AfterIgnorableStep]_vars

\* mmap has failed for another reason than ENOMEM on the second file that
\* can be opened of root 2, after the first was mapped; one entry is left
C17_Witness ==
    /\ last.op = "map_failed"
    /\ pc = "dir"
    /\ Top.path = << 2 >>
    /\ Top.pos = 3
    /\ Top.n_mappings = entry.n + 1
    /\ info.mmap_count = entry.info.mmap_count + 1
    /\ tries = 2
    /\ keep_running

\* C18: every step of a frame that opens a file closes it once, whatever
\* the outcome, so that no descriptor is open between two steps; the
\* directories open are those of the frames on the stack, one each, closed
\* when the frame returns; and outside the traversal of a root nothing is
\* open.
C18_DescriptorsBalanced ==
    /\ fds_open = 0
    /\ dirs_open = Len(stack)
    /\ pc # "dir" => (stack = << >> /\ dirs_open = 0)

\* the traversal pass has returned after out of memory on its first root,
\* with one file mapped before it
C18_Witness ==
    /\ pc = "unmap"
    /\ last.op = "none"
    /\ oom_cycle
    /\ calls = << 0 >>
    /\ n = 1
    /\ tries = 0
    /\ fds_open = 0
    /\ dirs_open = 0

\* the mappings of the table that munmap has yet to be called on
LiveCount ==
    CASE pc = "dir" -> Top.n_mappings
      [] pc \in {"roots", "called"} -> n
      [] pc = "unmap" -> n - i
      [] OTHER -> 0

\* C19: munmap_count never exceeds mmap_count, nor munmap_page_count
\* mmap_page_count; mmap_count is the number of increments of the bogo
\* counter; and mmap_count - munmap_count is the number of munmap calls that
\* have failed so far (each with one call of the retry helper) plus the
\* mappings still in the table, of which there are none at the end of a
\* cycle.
C19_CountersConsistent ==
    /\ info.munmap_count <= info.mmap_count
    /\ info.munmap_page_count <= info.mmap_page_count
    /\ info.mmap_count = bogo
    /\ info.mmap_count - info.munmap_count = retries + LiveCount
    /\ pc = "while" => info.mmap_count - info.munmap_count = retries

\* the end of a second cycle, with a munmap that has failed in each cycle
\* and one that has not
C19_Witness ==
    /\ pc = "while"
    /\ ~first_cycle
    /\ retries = 2
    /\ info.munmap_count = 1
    /\ info.mmap_count = 3
    /\ info.munmap_page_count < info.mmap_page_count

\* slot s holds a mapping: an address mmap has returned and the length of
\* the file
Live(s) == mappings[s].addr # NULL /\ mappings[s].len = file_size

\* the count of the table during the traversal pass: that of the innermost
\* frame, or n between two calls on a root
Count == IF pc = "dir" THEN Top.n_mappings ELSE n

\* C20: during the traversal pass the slots below the count are live and the
\* others cleared, and no frame has a count above that of a frame it has
\* called; during the unmap pass the slots below i and those from n on are
\* cleared and the slots from i up to n are live.
C20_Shape ==
    /\ Traversing =>
          /\ \A s \in Slots :
                IF s < Count THEN Live(s) ELSE mappings[s] = ClearedSlot
          /\ \A f \in 1 .. Len(stack) :
                entry.n <= stack[f].n_mappings /\ stack[f].n_mappings <= Count
    /\ pc = "unmap" =>
          \A s \in Slots :
             IF i <= s /\ s < n THEN Live(s) ELSE mappings[s] = ClearedSlot

\* C20: a step of a frame changes no slot below the count of the frame, and
\* so none below the count the call on the root was given; a successful
\* mmap writes the slot at the count and the count grows by one.
C20_AppendStep ==
    /\ pc = "dir" =>
          \A s \in Slots : s < Top.n_mappings => mappings'[s] = mappings[s]
    /\ Outcome("mapped") =>
          /\ Top.n_mappings \in Slots
          /\ mappings'[Top.n_mappings].addr # NULL
          /\ mappings'[Top.n_mappings].len = file_size
          /\ \A s \in Slots \ {Top.n_mappings} : mappings'[s] = mappings[s]
          /\ stack'[Len(stack)].n_mappings = Top.n_mappings + 1
    /\ (pc = "dir" /\ ~Outcome("mapped")) => mappings' = mappings

\* C20, of every state and every step.
C20_TableShape == [] C20_Shape /\ [][C20_AppendStep]_vars

\* the unmap pass is at the second of three mappings
C20_Witness ==
    /\ pc = "unmap"
    /\ i = 1
    /\ n = MMAP_MAX
    /\ mappings[0] = ClearedSlot
    /\ \A s \in 1 .. (MMAP_MAX - 1) : Live(s)
    /\ file_size > 0

====
